---- MODULE Spec2Model ----
(***************************************************************************)
(* TGraph2D (hist/hist/src/TGraph2D.cxx): the sample arrays, the build     *)
(* parameters and the cached histogram / Delaunay interpolator.            *)
(*                                                                         *)
(* Units.  Coordinates are integers.  The margin is kept in tenths (the    *)
(* code's 0.1 is 1, its upper limit 1 is 10).  Axis limits are kept in     *)
(* tenths as well.                                                         *)
(*                                                                         *)
(* Heap.  A graph refers to at most one histogram (fHistogram) and one     *)
(* interpolator (fDelaunay).  A histogram owns the interpolators of its    *)
(* function list: deleting the histogram deletes them.  fDelaunay is a     *)
(* raw pointer: the record it holds keeps what it points at, and whether   *)
(* that object is still alive and still owned by the graph's histogram.    *)
(***************************************************************************)
EXTENDS Integers, Sequences, FiniteSets, TLC

VARIABLES
    fNpoints,     \* Int_t fNpoints
    fSize,        \* Int_t fSize: capacity of fX, fY, fZ
    fX, fY, fZ,   \* the arrays, cell i of the code at i+1; << >> is nullptr
    fNpx, fNpy,   \* grid resolution
    fMargin,      \* in tenths
    fZout,        \* outside-hull fill value
    fMaxIter,
    fMinimum, fMaximum,
    fUserHisto,
    fFunctions,   \* TRUE while the TList exists
    kOldInterpolation,   \* the TObject bit
    fHistogram,   \* NoHist or a histogram record
    fDelaunay,    \* NoInterp or an interpolator reference
    crashed,      \* a null pointer was dereferenced: the process is gone
    last          \* what the last call did and returned (observation only)

pointVars == <<fNpoints, fSize, fX, fY, fZ>>
paramVars == <<fNpx, fNpy, fMargin, fZout, fMaxIter, fMinimum, fMaximum, fUserHisto>>
cacheVars == <<fHistogram, fDelaunay, kOldInterpolation>>
graphVars == <<pointVars, paramVars, cacheVars, fFunctions>>
vars == <<graphVars, crashed, last>>

----------------------------------------------------------------------------
(* Bounds of the exploration *)

\* largest index handed to SetPoint, Set, RemovePoint, GetPoint
MaxIdx == 1
\* largest absolute coordinate value Add may produce
MaxVal == 2

(* Program constants *)

DefaultNpx == 40
MinNp == 4
MaxNp == 500
DefaultMaxIter == 100000
\* SetMargin: the upper limit 1 and the replacement value 0.1, in tenths
MarginMax == 10
MarginFallback == 1
\* fMinimum, fMaximum when unset
Unset == 0 - 1111

\* The double that is not a number, among the margins (tenths): no
\* comparison with it is true
NaN == 0 - 9999
Less(a, b) == a # NaN /\ b # NaN /\ a < b

Max(a, b) == IF a >= b THEN a ELSE b
Abs(a) == IF a < 0 THEN 0 - a ELSE a

----------------------------------------------------------------------------
(* Heap objects *)

NoHist == [isNull |-> TRUE]
NoInterp == [isNull |-> TRUE]
NoFunc == [present |-> FALSE]

\* TH2D: who owns it, its bins, limits, entries and function list.  The
\* function list holds at most one object named "TGraphDelaunay" (old) and
\* one named "TGraphDelaunay2D" (new).
NewHist(user, nx, ny, lim, entries, fOld, fNew) ==
    [isNull |-> FALSE, user |-> user, nx |-> nx, ny |-> ny, lim |-> lim,
     entries |-> entries, fOld |-> fOld, fNew |-> fNew]

\* An interpolator object: engine variant, the values it was configured
\* with, and whether it was built for this graph.
NewFunc(old, zout, maxit, mine) ==
    [present |-> TRUE, old |-> old, zout |-> zout, maxit |-> maxit, mine |-> mine]

\* fDelaunay: the object pointed at and its fate.  "owned": in the function
\* list of fHistogram; "leaked": alive and in no function list; "detached":
\* alive, in the list of a histogram the graph no longer refers to; "dead":
\* deleted with its histogram.
Ref(f, fate) ==
    [isNull |-> FALSE, old |-> f.old, zout |-> f.zout,
     maxit |-> f.maxit, mine |-> f.mine, fate |-> fate]

\* TGraphDelaunay2D has no iteration limit to configure
NoMaxIter == 0 - 1

\* Axis limits of a histogram, by where they come from: "unit" is
\* [0,1] x [0,1] (the histogram of an empty graph), "data" the extent of the
\* samples widened by the margin, "caller" those of a histogram handed in
UnitLimits == "unit"
DataLimits == "data"
CallerLimits == "caller"

\* what a call reports: its name, its integer argument (0 when it has none),
\* its result and the number returned, the fate of the interpolator it
\* evaluated through ("none": it evaluated through none), what it created or
\* deleted, how many times it called ComputeZ (calls), whether it issued a
\* Warning or an Error, the coordinates or options it was given (args) and
\* what it wrote to the caller's variables (out), each the empty tuple when
\* there are none
Obs(op, res) ==
    [op |-> op, arg |-> 0, res |-> res, ret |-> 0, via |-> "none", newHist |-> FALSE,
     newInterp |-> FALSE, delHist |-> FALSE, delUser |-> FALSE, calls |-> 0,
     warn |-> FALSE,
     err |-> FALSE, args |-> << >>, out |-> << >>]

----------------------------------------------------------------------------
(* The cache: histogram and interpolator *)

\* "delete fHistogram": the record of the call notes whose histogram went
Deleted(o, H) == [o EXCEPT !.delHist = TRUE, !.delUser = H.user]

\* the block "if (fHistogram) { delete fHistogram; fHistogram = nullptr;
\* fDelaunay = nullptr; }" of RemovePoint, SetMargin, SetMarginBinsContent,
\* SetNpx and SetNpy: the cache afterwards
DiscardD(H, D) == IF H.isNull THEN D ELSE NoInterp

DiscardObs(o, H) == IF H.isNull THEN o ELSE Deleted(o, H)

\* an interpolator of either engine created without the iteration limit:
\* C16 does not hold of it
CreateInterpolatorUnlimited(H, oldInterp) ==
    LET dt == NewFunc(oldInterp, fZout, NoMaxIter, TRUE)
        there == IF oldInterp THEN H.fOld.present ELSE H.fNew.present
    IN  [H |-> IF there THEN H
               ELSE IF oldInterp THEN [H EXCEPT !.fOld = dt] ELSE [H EXCEPT !.fNew = dt],
         D |-> Ref(dt, IF there THEN "leaked" ELSE "owned"),
         kOld |-> oldInterp]

\* CreateInterpolator(oldInterp) on histogram H (not null): the new object
\* is configured from the graph, fDelaunay set to it, and it joins H's
\* function list unless the list has an object of that name already
CreateInterpolator(H, oldInterp) ==
    LET dt == NewFunc(oldInterp, fZout,
                      IF oldInterp THEN fMaxIter ELSE NoMaxIter, TRUE)
        there == IF oldInterp THEN H.fOld.present ELSE H.fNew.present
    IN  [H |-> IF there THEN H
               ELSE IF oldInterp THEN [H EXCEPT !.fOld = dt] ELSE [H EXCEPT !.fNew = dt],
         D |-> Ref(dt, IF there THEN "leaked" ELSE "owned"),
         kOld |-> oldInterp]

\* Interpolate's results are kept by kind: "zero" (the 0 returned for an empty
\* graph), "nan" (TMath::QuietNaN()), "value" (what ComputeZ of a live
\* interpolator returns for the point asked), "dead" (read through a deleted
\* object).

\* the outcome of evaluating ComputeZ through pointer D cast to the engine
\* variant asOld: "value", or no defined behaviour ("null", "dead", "cast")
Through(D, asOld) ==
    IF D.isNull THEN "null"
    ELSE IF D.fate = "dead" THEN "dead"
    ELSE IF D.old # asOld THEN "cast"
    ELSE "value"

\* a histogram for a graph without samples booked over the samples' range,
\* as for a graph that has some: C7 does not hold of it
EmptyGraphHistogramOverData == NewHist(FALSE, fNpx, fNpy, DataLimits, 0, NoFunc, NoFunc)

\* the histogram GetHistogram books for a graph without samples
EmptyGraphHistogram == NewHist(FALSE, fNpx, fNpy, UnitLimits, 0, NoFunc, NoFunc)

\* GetHistogram(option), option given by its two tests
\* (empty: contains "empty"; oldInterp: contains "old").
\* Result: the cache afterwards, what happened, and how the call ended:
\* "hist" (a histogram is returned), "crash" (null histogram dereferenced),
\* or the fault of the grid-fill loop ("null", "dead", "cast").
GetHistogram(empty, oldInterp) ==
    LET H0 == fHistogram
        D0 == fDelaunay
        o0 == Obs("GetHistogram", "hist")
        same == [H |-> H0, D |-> D0, kOld |-> kOldInterpolation, o |-> o0, filled |-> FALSE]
    IN
    IF fNpoints <= 0 THEN
        IF H0.isNull
        THEN [same EXCEPT !.H = EmptyGraphHistogram,
                          !.o = [o0 EXCEPT !.newHist = TRUE]]
        ELSE same
    ELSE
    LET \* lines 1028-1047: the histogram that exists
        drop == /\ ~H0.isNull
                /\ \/ (~empty /\ H0.entries = 0 /\ ~fUserHisto)
                   \/ (H0.entries # 0 /\ kOldInterpolation # oldInterp)
        keep == ~H0.isNull /\ H0.entries # 0 /\ kOldInterpolation = oldInterp
        H1 == IF drop THEN NoHist ELSE H0
        D1 == IF drop THEN NoInterp ELSE D0
        o1 == IF drop THEN Deleted(o0, H0) ELSE o0
    IN
    IF keep THEN same
    ELSE IF fUserHisto /\ H1.isNull
    THEN [same EXCEPT !.H = H1, !.D = D1, !.o = [o1 EXCEPT !.res = "crash"]]
    ELSE
    LET \* lines 1052-1097: book the histogram if needed
        booked == ~fUserHisto /\ H1.isNull
        made == CreateInterpolator(NewHist(FALSE, fNpx, fNpy, DataLimits, 0, NoFunc, NoFunc),
                                   oldInterp)
        H2 == IF fUserHisto THEN H1
              ELSE IF booked THEN made.H
              ELSE [H1 EXCEPT !.lim = DataLimits]
        D2 == IF booked THEN made.D ELSE D1
        k2 == IF booked THEN made.kOld ELSE kOldInterpolation
        o2 == IF booked THEN [o1 EXCEPT !.newHist = TRUE, !.newInterp = TRUE] ELSE o1
        \* lines 1127-1144: the grid-fill loop
        how == Through(D2, oldInterp)
    IN
    IF empty THEN [H |-> H2, D |-> D2, kOld |-> k2, o |-> o2, filled |-> FALSE]
    ELSE IF how # "value"
    THEN [H |-> H2, D |-> D2, kOld |-> k2, o |-> [o2 EXCEPT !.res = how], filled |-> FALSE]
    ELSE [H |-> [H2 EXCEPT !.entries = @ + fNpx * fNpy], D |-> D2, kOld |-> k2,
          o |-> [o2 EXCEPT !.via = D2.fate, !.calls = fNpx * fNpy], filled |-> TRUE]

----------------------------------------------------------------------------
(* The sample arrays *)

\* new Double_t[n]: cells of indeterminate content, here all g
Fresh(n, g) == [i \in 1..n |-> g]

\* a re-allocation that copies nothing: C13 does not hold of it
RegrownBlank(a, size, newN, g) == Fresh(newN, g)

\* SetPoint's re-allocation of one array: the old cells copied and the rest
\* zeroed when there was an array of capacity > 0, else left as allocated
Regrown(a, size, newN, g) ==
    IF a # << >> /\ size > 0
    THEN [i \in 1..newN |-> IF i <= size THEN a[i] ELSE 0]
    ELSE Fresh(newN, g)

\* the arrays and counts after SetPoint(n, x, y, z), n >= 0
SetPointArrays(n, x, y, z, g) ==
    LET grow == fX = << >> \/ fY = << >> \/ fZ = << >> \/ n >= fSize
        newN == Max(2 * fSize, n + 1)
        X == IF grow THEN Regrown(fX, fSize, newN, g) ELSE fX
        Y == IF grow THEN Regrown(fY, fSize, newN, g) ELSE fY
        Z == IF grow THEN Regrown(fZ, fSize, newN, g) ELSE fZ
    IN  [X |-> [X EXCEPT ![n + 1] = x], Y |-> [Y EXCEPT ![n + 1] = y],
         Z |-> [Z EXCEPT ![n + 1] = z],
         size |-> IF grow THEN newN ELSE fSize,
         N |-> Max(fNpoints, n + 1)]

\* a loop that starts one cell late: C12 does not hold of it
ShiftedLate(a, ipoint, N) ==
    [i \in 1..Len(a) |-> IF i >= ipoint + 2 /\ i <= N - 1 THEN a[i + 1] ELSE a[i]]

\* RemovePoint's loop on one array: cells ipoint .. N-2 take their successor
Shifted(a, ipoint, N) ==
    [i \in 1..Len(a) |-> IF i >= ipoint + 1 /\ i <= N - 1 THEN a[i + 1] ELSE a[i]]

\* loops that step past the cell a removal has just filled: C18 does not
\* hold of them
RECURSIVE RemoveDuplicatesSkipping(_, _, _)
RemoveDuplicatesSkipping(i, j, st) ==
    IF i >= st.N THEN st
    ELSE IF j >= st.N THEN RemoveDuplicatesSkipping(i + 1, i + 2, st)
    ELSE IF st.X[i + 1] = st.X[j + 1] /\ st.Y[i + 1] = st.Y[j + 1]
    THEN RemoveDuplicatesSkipping(i, j + 1,
             [X |-> Shifted(st.X, j, st.N), Y |-> Shifted(st.Y, j, st.N),
              Z |-> Shifted(st.Z, j, st.N), N |-> st.N - 1, removed |-> st.removed + 1])
    ELSE RemoveDuplicatesSkipping(i, j + 1, st)

\* RemoveDuplicates' two loops, from (i, j) on arrays st
RECURSIVE RemoveDuplicatesFrom(_, _, _)
RemoveDuplicatesFrom(i, j, st) ==
    IF i >= st.N THEN st
    ELSE IF j >= st.N THEN RemoveDuplicatesFrom(i + 1, i + 2, st)
    ELSE IF st.X[i + 1] = st.X[j + 1] /\ st.Y[i + 1] = st.Y[j + 1]
    THEN RemoveDuplicatesFrom(i, j,
             [X |-> Shifted(st.X, j, st.N), Y |-> Shifted(st.Y, j, st.N),
              Z |-> Shifted(st.Z, j, st.N), N |-> st.N - 1, removed |-> st.removed + 1])
    ELSE RemoveDuplicatesFrom(i, j + 1, st)

\* TF2::Eval for the functions handed to Add and Apply
Eval(f, x, y, z) ==
    CASE f = "one" -> 1
      [] f = "x" -> x
      [] f = "negz" -> 0 - z

----------------------------------------------------------------------------
(* Construction *)

\* TGraph2D(): lines 243-263
DefaultCtor ==
    /\ fNpoints = 0 /\ fSize = 0
    /\ fX = << >> /\ fY = << >> /\ fZ = << >>
    /\ fMargin = 0 /\ fNpx = DefaultNpx /\ fNpy = DefaultNpx
    /\ fHistogram = NoHist /\ fDelaunay = NoInterp
    /\ fMaximum = Unset /\ fMinimum = Unset
    /\ fZout = 0 /\ fMaxIter = DefaultMaxIter
    /\ fFunctions = TRUE /\ fUserHisto = FALSE

\* TGraph2D(Int_t n) with n > 0: Build(n), then every sample set to (0,0,0)
SizedCtor(n) ==
    /\ fNpoints = n /\ fSize = n
    /\ fX = [i \in 1..n |-> 0] /\ fY = [i \in 1..n |-> 0] /\ fZ = [i \in 1..n |-> 0]
    /\ fMargin = 0 /\ fNpx = DefaultNpx /\ fNpy = DefaultNpx
    /\ fHistogram = NoHist /\ fDelaunay = NoInterp
    /\ fMaximum = Unset /\ fMinimum = Unset
    /\ fZout = 0 /\ fMaxIter = DefaultMaxIter
    /\ fFunctions = TRUE /\ fUserHisto = FALSE

\* What a field that was never written can hold: a number, a flag, a
\* pointer to cells (null, or the address of some cell)
IndeterminateInt == {0, 1}
IndeterminateArray == {<< >>, <<1>>}

\* TGraph2D(Int_t n) with n <= 0: fNpoints(n) in the initialiser list, then
\* Build(n) reports the error and returns before it writes any field.  The
\* capacity and the three array pointers take every combination of values;
\* the other fields hold what storage of zeros or storage of ones gives (a
\* double of ones is not a number), the histogram and interpolator pointers
\* null in both.
InvalidCtor(n) ==
    /\ fNpoints = n
    /\ fSize \in IndeterminateInt
    /\ fX \in IndeterminateArray /\ fY \in IndeterminateArray /\ fZ \in IndeterminateArray
    /\ \E v \in IndeterminateInt :
           /\ fMargin = (IF v = 1 THEN NaN ELSE 0) /\ fNpx = v /\ fNpy = v
           /\ fMaximum = v /\ fMinimum = v
           /\ fZout = v /\ fMaxIter = v
           /\ fFunctions = (v = 1) /\ fUserHisto = (v = 1)
    /\ fHistogram = NoHist /\ fDelaunay = NoInterp

Init ==
    /\ DefaultCtor \/ SizedCtor(1)
    /\ kOldInterpolation = FALSE
    /\ crashed = FALSE
    /\ last = Obs("ctor", "void")

----------------------------------------------------------------------------
(* Operations on the samples *)

SetPoint(n, x, y, z, g) ==
    /\ ~crashed
    /\ IF n < 0 THEN UNCHANGED pointVars
       ELSE LET r == SetPointArrays(n, x, y, z, g)
            IN  /\ fX' = r.X /\ fY' = r.Y /\ fZ' = r.Z
                /\ fSize' = r.size /\ fNpoints' = r.N
    /\ last' = [Obs("SetPoint", "void") EXCEPT !.arg = n, !.args = <<x, y, z>>]
    /\ UNCHANGED <<paramVars, cacheVars, fFunctions, crashed>>

Set(n, g) ==
    /\ ~crashed
    /\ LET m == IF n < 0 THEN 0 ELSE n
       IN  IF m = fNpoints THEN UNCHANGED pointVars
           ELSE IF m > fNpoints
           THEN LET r == SetPointArrays(m, 0, 0, 0, g)
                IN  /\ fX' = r.X /\ fY' = r.Y /\ fZ' = r.Z
                    /\ fSize' = r.size /\ fNpoints' = m
           ELSE /\ fNpoints' = m
                /\ UNCHANGED <<fSize, fX, fY, fZ>>
    /\ last' = [Obs("Set", "void") EXCEPT !.arg = n]
    /\ UNCHANGED <<paramVars, cacheVars, fFunctions, crashed>>

\* Scale(c1, option): option given by the coordinates it names
Scale(c1, sx, sy, sz) ==
    /\ ~crashed
    /\ fX' = [i \in 1..Len(fX) |-> IF sx /\ i <= fNpoints THEN fX[i] * c1 ELSE fX[i]]
    /\ fY' = [i \in 1..Len(fY) |-> IF sy /\ i <= fNpoints THEN fY[i] * c1 ELSE fY[i]]
    /\ fZ' = [i \in 1..Len(fZ) |-> IF sz /\ i <= fNpoints THEN fZ[i] * c1 ELSE fZ[i]]
    /\ last' = Obs("Scale", "void")
    /\ UNCHANGED <<fNpoints, fSize, paramVars, cacheVars, fFunctions, crashed>>

Add(f, c1) ==
    /\ ~crashed
    /\ \A i \in 1..fNpoints : Abs(fZ[i] + c1 * Eval(f, fX[i], fY[i], fZ[i])) <= MaxVal
    /\ fZ' = [i \in 1..Len(fZ) |->
                 IF i <= fNpoints THEN fZ[i] + c1 * Eval(f, fX[i], fY[i], fZ[i]) ELSE fZ[i]]
    /\ last' = Obs("Add", "void")
    /\ UNCHANGED <<fNpoints, fSize, fX, fY, paramVars, cacheVars, fFunctions, crashed>>

Apply(f) ==
    /\ ~crashed
    /\ fZ' = [i \in 1..Len(fZ) |->
                 IF i <= fNpoints THEN Eval(f, fX[i], fY[i], fZ[i]) ELSE fZ[i]]
    /\ last' = Obs("Apply", "void")
    /\ UNCHANGED <<fNpoints, fSize, fX, fY, paramVars, cacheVars, fFunctions, crashed>>

RemovePoint(ipoint) ==
    /\ ~crashed
    /\ IF ipoint < 0 \/ ipoint >= fNpoints
       THEN /\ last' = [Obs("RemovePoint", "int") EXCEPT !.arg = ipoint, !.ret = 0 - 1]
            /\ UNCHANGED <<pointVars, cacheVars>>
       ELSE /\ fX' = Shifted(fX, ipoint, fNpoints)
            /\ fY' = Shifted(fY, ipoint, fNpoints)
            /\ fZ' = Shifted(fZ, ipoint, fNpoints)
            /\ fNpoints' = fNpoints - 1
            /\ fHistogram' = NoHist
            /\ fDelaunay' = DiscardD(fHistogram, fDelaunay)
            /\ last' = DiscardObs([Obs("RemovePoint", "int") EXCEPT !.arg = ipoint, !.ret = ipoint],
                                  fHistogram)
            /\ UNCHANGED <<fSize, kOldInterpolation>>
    /\ UNCHANGED <<paramVars, fFunctions, crashed>>

RemoveDuplicates ==
    /\ ~crashed
    /\ LET r == RemoveDuplicatesFrom(0, 1,
                    [X |-> fX, Y |-> fY, Z |-> fZ, N |-> fNpoints, removed |-> 0])
           o == [Obs("RemoveDuplicates", "int") EXCEPT !.ret = r.N]
       IN  /\ fX' = r.X /\ fY' = r.Y /\ fZ' = r.Z /\ fNpoints' = r.N
           /\ IF r.removed > 0
              THEN /\ fHistogram' = NoHist
                   /\ fDelaunay' = DiscardD(fHistogram, fDelaunay)
                   /\ last' = DiscardObs(o, fHistogram)
              ELSE /\ last' = o
                   /\ UNCHANGED <<fHistogram, fDelaunay>>
    /\ UNCHANGED <<fSize, kOldInterpolation, paramVars, fFunctions, crashed>>

\* a lookup that clears the caller's variables when it fails: C20 does not
\* hold of it
GetPointClearing(i) ==
    /\ ~crashed
    /\ last' = IF i < 0 \/ i >= fNpoints \/ fX = << >> \/ fY = << >> \/ fZ = << >>
               THEN [Obs("GetPoint", "int") EXCEPT !.arg = i, !.ret = 0 - 1,
                        !.out = <<0, 0, 0>>]
               ELSE [Obs("GetPoint", "point") EXCEPT !.arg = i, !.ret = i,
                        !.out = <<fX[i + 1], fY[i + 1], fZ[i + 1]>>]
    /\ UNCHANGED <<graphVars, crashed>>

\* GetPoint(i, x, y, z): .ret is the value returned, .out the values written
\* to x, y, z (empty when they are not written)
GetPoint(i) ==
    /\ ~crashed
    /\ last' = IF i < 0 \/ i >= fNpoints \/ fX = << >> \/ fY = << >> \/ fZ = << >>
               THEN [Obs("GetPoint", "int") EXCEPT !.arg = i, !.ret = 0 - 1]
               ELSE [Obs("GetPoint", "point") EXCEPT !.arg = i, !.ret = i,
                        !.out = <<fX[i + 1], fY[i + 1], fZ[i + 1]>>]
    /\ UNCHANGED <<graphVars, crashed>>

\* the loop "for (i = 1; i < fNpoints; i++) if (a[i] > v) v = a[i]" of
\* GetXmax .. GetZmin from index i on, '<' in place of '>' for a minimum
RECURSIVE Scan(_, _, _, _)
Scan(a, upper, i, v) ==
    IF i >= fNpoints THEN v
    ELSE Scan(a, upper, i + 1,
              IF (upper /\ a[i + 1] > v) \/ (~upper /\ a[i + 1] < v) THEN a[i + 1] ELSE v)

\* GetXmax, GetXmin, GetYmax, GetYmin, GetZmax, GetZmin: axis names the
\* array, upper says maximum.  .args lists the indices read from the array;
\* element 0 is read before the count is looked at, and reading it through a
\* null pointer ends the process.
GetExtreme(axis, upper) ==
    /\ ~crashed
    /\ LET a == CASE axis = "X" -> fX [] axis = "Y" -> fY [] OTHER -> fZ
           o == [Obs("Get" \o axis \o (IF upper THEN "max" ELSE "min"), "value")
                    EXCEPT !.args = <<0>> \o [k \in 1..(fNpoints - 1) |-> k]]
       IN  IF a = << >>
           THEN last' = [o EXCEPT !.res = "crash"] /\ crashed' = TRUE
           ELSE last' = [o EXCEPT !.ret = Scan(a, upper, 1, a[1])] /\ crashed' = FALSE
    /\ UNCHANGED graphVars

----------------------------------------------------------------------------
(* Build parameters *)

\* a clamp without the upper limit: C9 does not hold of it
ClampNpBelowOnly(n) == IF n < MinNp THEN MinNp ELSE n

\* the value SetNpx and SetNpy store for a request
ClampNp(n) == IF n < MinNp THEN MinNp ELSE IF n > MaxNp THEN MaxNp ELSE n

\* the value SetMargin stores for a request (tenths)
MarginFor(m) == IF Less(m, 0) \/ Less(MarginMax, m) THEN MarginFallback ELSE m

SetMargin(m) ==
    /\ ~crashed
    /\ fMargin' = MarginFor(m)
    /\ fHistogram' = NoHist
    /\ fDelaunay' = DiscardD(fHistogram, fDelaunay)
    /\ last' = DiscardObs([Obs("SetMargin", "void") EXCEPT !.arg = m, !.warn = (Less(m, 0) \/ Less(MarginMax, m))],
                          fHistogram)
    /\ UNCHANGED <<pointVars, fNpx, fNpy, fZout, fMaxIter, fMinimum, fMaximum,
                   fUserHisto, kOldInterpolation, fFunctions, crashed>>

SetMarginBinsContent(z) ==
    /\ ~crashed
    /\ fZout' = z
    /\ fHistogram' = NoHist
    /\ fDelaunay' = DiscardD(fHistogram, fDelaunay)
    /\ last' = DiscardObs([Obs("SetMarginBinsContent", "void") EXCEPT !.arg = z], fHistogram)
    /\ UNCHANGED <<pointVars, fNpx, fNpy, fMargin, fMaxIter, fMinimum, fMaximum,
                   fUserHisto, kOldInterpolation, fFunctions, crashed>>

\* a setter that also goes back to the default engine: C23 does not hold of it
SetNpxResetting(npx) ==
    /\ ~crashed
    /\ fNpx' = ClampNp(npx)
    /\ fHistogram' = NoHist
    /\ kOldInterpolation' = FALSE
    /\ fDelaunay' = DiscardD(fHistogram, fDelaunay)
    /\ last' = DiscardObs([Obs("SetNpx", "void") EXCEPT !.arg = npx, !.warn = (npx < MinNp \/ npx > MaxNp)],
                          fHistogram)
    /\ UNCHANGED <<pointVars, fNpy, fMargin, fZout, fMaxIter, fMinimum, fMaximum,
                   fUserHisto, fFunctions, crashed>>

SetNpx(npx) ==
    /\ ~crashed
    /\ fNpx' = ClampNp(npx)
    /\ fHistogram' = NoHist
    /\ fDelaunay' = DiscardD(fHistogram, fDelaunay)
    /\ last' = DiscardObs([Obs("SetNpx", "void") EXCEPT !.arg = npx, !.warn = (npx < MinNp \/ npx > MaxNp)],
                          fHistogram)
    /\ UNCHANGED <<pointVars, fNpy, fMargin, fZout, fMaxIter, fMinimum, fMaximum,
                   fUserHisto, kOldInterpolation, fFunctions, crashed>>

SetNpy(npy) ==
    /\ ~crashed
    /\ fNpy' = ClampNp(npy)
    /\ fHistogram' = NoHist
    /\ fDelaunay' = DiscardD(fHistogram, fDelaunay)
    /\ last' = DiscardObs([Obs("SetNpy", "void") EXCEPT !.arg = npy, !.warn = (npy < MinNp \/ npy > MaxNp)],
                          fHistogram)
    /\ UNCHANGED <<pointVars, fNpx, fMargin, fZout, fMaxIter, fMinimum, fMaximum,
                   fUserHisto, kOldInterpolation, fFunctions, crashed>>

\* SetHistogram(h, option): h is a histogram of the caller's with nx x ny
\* bins and the given entries, its function list empty; again = TRUE hands
\* in the histogram the graph already refers to (h == fHistogram)
SetHistogram(again, nx, ny, entries, oldInterp) ==
    /\ ~crashed
    /\ again => ~fHistogram.isNull
    /\ LET h == IF again THEN [fHistogram EXCEPT !.user = TRUE]
                ELSE NewHist(TRUE, nx, ny, CallerLimits, entries, NoFunc, NoFunc)
           made == CreateInterpolator(h, oldInterp)
       IN  /\ fUserHisto' = TRUE
           /\ fNpx' = h.nx
           /\ fNpy' = h.ny
           /\ fHistogram' = made.H
           /\ fDelaunay' = made.D
           /\ kOldInterpolation' = made.kOld
           /\ last' = [Obs("SetHistogram", "void") EXCEPT !.newInterp = TRUE]
    /\ UNCHANGED <<pointVars, fMargin, fZout, fMaxIter, fMinimum, fMaximum,
                   fFunctions, crashed>>

----------------------------------------------------------------------------
(* Queries *)

GetHistogramCall(empty, oldInterp) ==
    /\ ~crashed
    /\ LET r == GetHistogram(empty, oldInterp)
       IN  /\ fHistogram' = r.H
           /\ fDelaunay' = r.D
           /\ kOldInterpolation' = r.kOld
           /\ last' = [r.o EXCEPT !.args = <<empty, oldInterp>>]
           \* a deleted or mis-cast interpolator: any outcome, the crash included
           /\ CASE r.o.res \in {"crash", "null"} -> crashed' = TRUE
                [] r.o.res \in {"dead", "cast"} -> crashed' \in BOOLEAN
                [] OTHER -> crashed' = FALSE
    /\ UNCHANGED <<pointVars, paramVars, fFunctions>>

\* the interpolator Interpolate finds in the function list of H when
\* fDelaunay is null: the variant the bit names first, then the other
Lookup(H, kOld) ==
    LET first == IF kOld THEN H.fOld ELSE H.fNew
        second == IF kOld THEN H.fNew ELSE H.fOld
    IN  IF first.present THEN Ref(first, "owned")
        ELSE IF second.present THEN Ref(second, "owned")
        ELSE NoInterp

\* an interpolation that asks for the filled histogram every time: C22 does
\* not hold of it
InterpolateRefilling(x, y) ==
    /\ ~crashed
    /\ IF fNpoints <= 0
       THEN /\ last' = [Obs("Interpolate", "zero") EXCEPT !.err = TRUE]
            /\ UNCHANGED <<cacheVars, crashed>>
       ELSE LET r == GetHistogram(FALSE, FALSE)
                o == [r.o EXCEPT !.op = "Interpolate"]
                D == IF r.D.isNull /\ r.o.res # "crash" THEN Lookup(r.H, r.kOld) ELSE r.D
            IN  /\ fHistogram' = r.H
                /\ kOldInterpolation' = r.kOld
                /\ fDelaunay' = D
                /\ IF r.o.res = "crash"
                   THEN last' = o /\ crashed' = TRUE
                   ELSE IF D.isNull
                   THEN last' = [o EXCEPT !.res = "nan"] /\ crashed' = FALSE
                   ELSE IF D.fate = "dead"
                   THEN \* a deleted object: any number comes back, or none
                        /\ \E v \in {0, 1} :
                               last' = [o EXCEPT !.res = "dead", !.via = D.fate, !.ret = v]
                        /\ crashed' \in BOOLEAN
                   ELSE /\ last' = [o EXCEPT !.res = "value", !.via = D.fate, !.calls = 1]
                        /\ crashed' = FALSE
    /\ UNCHANGED <<pointVars, paramVars, fFunctions>>

Interpolate(x, y) ==
    /\ ~crashed
    /\ IF fNpoints <= 0
       THEN /\ last' = [Obs("Interpolate", "zero") EXCEPT !.err = TRUE]
            /\ UNCHANGED <<cacheVars, crashed>>
       ELSE LET r == IF fHistogram.isNull THEN GetHistogram(TRUE, FALSE)
                     ELSE [H |-> fHistogram, D |-> fDelaunay, kOld |-> kOldInterpolation,
                           o |-> Obs("GetHistogram", "hist"), filled |-> FALSE]
                o == [r.o EXCEPT !.op = "Interpolate"]
                D == IF r.D.isNull /\ r.o.res # "crash" THEN Lookup(r.H, r.kOld) ELSE r.D
            IN  /\ fHistogram' = r.H
                /\ kOldInterpolation' = r.kOld
                /\ fDelaunay' = D
                /\ IF r.o.res = "crash"
                   THEN last' = o /\ crashed' = TRUE
                   ELSE IF D.isNull
                   THEN last' = [o EXCEPT !.res = "nan"] /\ crashed' = FALSE
                   ELSE IF D.fate = "dead"
                   THEN \* a deleted object: any number comes back, or none
                        /\ \E v \in {0, 1} :
                               last' = [o EXCEPT !.res = "dead", !.via = D.fate, !.ret = v]
                        /\ crashed' \in BOOLEAN
                   ELSE /\ last' = [o EXCEPT !.res = "value", !.via = D.fate, !.calls = 1]
                        /\ crashed' = FALSE
    /\ UNCHANGED <<pointVars, paramVars, fFunctions>>

GetContourList ==
    /\ ~crashed
    /\ IF fNpoints <= 0
       THEN /\ last' = [Obs("GetContourList", "null") EXCEPT !.err = TRUE]
            /\ UNCHANGED <<cacheVars, crashed>>
       ELSE LET r == IF fHistogram.isNull THEN GetHistogram(TRUE, FALSE)
                     ELSE [H |-> fHistogram, D |-> fDelaunay, kOld |-> kOldInterpolation,
                           o |-> Obs("GetHistogram", "hist"), filled |-> FALSE]
            IN  /\ fHistogram' = r.H
                /\ kOldInterpolation' = r.kOld
                /\ fDelaunay' = r.D
                /\ crashed' = (r.o.res = "crash")
                /\ last' = [r.o EXCEPT !.op = "GetContourList",
                                       !.res = IF r.o.res = "crash" THEN "crash" ELSE "list"]
    /\ UNCHANGED <<pointVars, paramVars, fFunctions>>

\* Project(option): pcase is 0 when the option names neither x nor y
Project(pcase) ==
    /\ ~crashed
    /\ last' = IF fNpoints <= 0 THEN [Obs("Project", "null") EXCEPT !.err = TRUE]
               ELSE IF pcase = 0 THEN Obs("Project", "null")
               ELSE Obs("Project", "hist")
    /\ UNCHANGED <<graphVars, crashed>>

----------------------------------------------------------------------------
(* Ownership: RecursiveRemove, operator=, Clear *)

\* RecursiveRemove(obj), called while obj is being destroyed.  isHist: obj is
\* the histogram fHistogram points at (its function list dies with it).
RecursiveRemove(isHist) ==
    /\ ~crashed
    /\ isHist => ~fHistogram.isNull
    /\ IF isHist
       THEN /\ fHistogram' = NoHist
            /\ fDelaunay' = IF ~fDelaunay.isNull /\ fDelaunay.fate = "owned"
                            THEN [fDelaunay EXCEPT !.fate = "dead"] ELSE fDelaunay
       ELSE UNCHANGED <<fHistogram, fDelaunay>>
    /\ last' = Obs("RecursiveRemove", "void")
    /\ UNCHANGED <<pointVars, paramVars, kOldInterpolation, fFunctions, crashed>>

\* The graphs assigned from.  An empty graph as TGraph2D() leaves it:
SourceEmpty ==
    [N |-> 0, X |-> << >>, Y |-> << >>, Z |-> << >>, fNpx |-> DefaultNpx, fNpy |-> DefaultNpx,
     fMaxIter |-> DefaultMaxIter, fMinimum |-> Unset, fMaximum |-> Unset,
     fMargin |-> 0, fZout |-> 0, fUserHisto |-> FALSE, H |-> NoHist]

\* a graph without histogram whose samples are ps, set one by one by
\* SetPoint on a graph constructed with Len(ps) samples
SourcePoints(ps) ==
    [SourceEmpty EXCEPT !.N = Len(ps),
                        !.X = [i \in 1..Len(ps) |-> ps[i][1]],
                        !.Y = [i \in 1..Len(ps) |-> ps[i][2]],
                        !.Z = [i \in 1..Len(ps) |-> ps[i][3]]]

\* a graph without samples or histogram after SetMarginBinsContent(zout)
SourceFill(zout) == [SourceEmpty EXCEPT !.fZout = zout]

\* a graph of one sample p with resolution np, margin m and fill value zout
\* whose own histogram was built and filled by GetHistogram()
SourceBuilt(p, np, m, zout) ==
    [N |-> 1, X |-> <<p[1]>>, Y |-> <<p[2]>>, Z |-> <<p[3]>>, fNpx |-> np, fNpy |-> np,
     fMaxIter |-> DefaultMaxIter, fMinimum |-> Unset, fMaximum |-> Unset,
     fMargin |-> m, fZout |-> zout, fUserHisto |-> FALSE,
     H |-> NewHist(FALSE, np, np, DataLimits, np * np, NoFunc,
                   NewFunc(FALSE, zout, NoMaxIter, FALSE))]

\* a graph of one sample p that was given a caller's histogram of np x np
\* bins by SetHistogram(h)
SourceCaller(p, np, m, zout) ==
    [N |-> 1, X |-> <<p[1]>>, Y |-> <<p[2]>>, Z |-> <<p[3]>>, fNpx |-> np, fNpy |-> np,
     fMaxIter |-> DefaultMaxIter, fMinimum |-> Unset, fMaximum |-> Unset,
     fMargin |-> m, fZout |-> zout, fUserHisto |-> TRUE,
     H |-> NewHist(TRUE, np, np, CallerLimits, 0, NoFunc,
                   NewFunc(FALSE, zout, NoMaxIter, FALSE))]

\* the histogram operator= stores for source histogram gH: the source's own
\* when it is a caller's, else a copy (new TH2D(*g.fHistogram)) whose function
\* list holds copies of the source's interpolators
Adopted(gH, user) == [gH EXCEPT !.user = user]

\* an assignment that also takes the function list of g, which is empty in
\* every graph assigned from: C21 does not hold of it
AssignWithFunctions(g) ==
    /\ ~crashed
    /\ LET drop == ~fHistogram.isNull /\ ~fUserHisto
           H1 == IF drop THEN NoHist ELSE fHistogram
           D1 == IF drop THEN NoInterp ELSE fDelaunay
           o == IF drop THEN Deleted(Obs("operator=", "void"), fHistogram)
                ELSE Obs("operator=", "void")
           replaced == ~g.H.isNull
       IN  /\ fNpoints' = g.N /\ fSize' = g.N
           /\ fX' = [i \in 1..g.N |-> g.X[i]]
           /\ fY' = [i \in 1..g.N |-> g.Y[i]]
           /\ fZ' = [i \in 1..g.N |-> g.Z[i]]
           /\ fNpx' = g.fNpx /\ fNpy' = g.fNpy /\ fMaxIter' = g.fMaxIter
           /\ fMinimum' = g.fMinimum /\ fMaximum' = g.fMaximum
           /\ fMargin' = g.fMargin /\ fZout' = g.fZout
           /\ fUserHisto' = g.fUserHisto
           /\ fHistogram' = IF replaced THEN Adopted(g.H, g.fUserHisto) ELSE H1
           /\ fDelaunay' = IF replaced /\ ~D1.isNull /\ D1.fate = "owned"
                           THEN [D1 EXCEPT !.fate = "detached"] ELSE D1
           /\ last' = [o EXCEPT !.newHist = (replaced /\ ~g.fUserHisto), !.args = <<g>>]
    /\ fFunctions' = FALSE
    /\ UNCHANGED <<kOldInterpolation, crashed>>

\* operator=(g) for another graph g; .args holds g
Assign(g) ==
    /\ ~crashed
    /\ LET drop == ~fHistogram.isNull /\ ~fUserHisto
           H1 == IF drop THEN NoHist ELSE fHistogram
           D1 == IF drop THEN NoInterp ELSE fDelaunay
           o == IF drop THEN Deleted(Obs("operator=", "void"), fHistogram)
                ELSE Obs("operator=", "void")
           replaced == ~g.H.isNull
       IN  /\ fNpoints' = g.N /\ fSize' = g.N
           /\ fX' = [i \in 1..g.N |-> g.X[i]]
           /\ fY' = [i \in 1..g.N |-> g.Y[i]]
           /\ fZ' = [i \in 1..g.N |-> g.Z[i]]
           /\ fNpx' = g.fNpx /\ fNpy' = g.fNpy /\ fMaxIter' = g.fMaxIter
           /\ fMinimum' = g.fMinimum /\ fMaximum' = g.fMaximum
           /\ fMargin' = g.fMargin /\ fZout' = g.fZout
           /\ fUserHisto' = g.fUserHisto
           /\ fHistogram' = IF replaced THEN Adopted(g.H, g.fUserHisto) ELSE H1
           /\ fDelaunay' = IF replaced /\ ~D1.isNull /\ D1.fate = "owned"
                           THEN [D1 EXCEPT !.fate = "detached"] ELSE D1
           /\ last' = [o EXCEPT !.newHist = (replaced /\ ~g.fUserHisto), !.args = <<g>>]
    /\ UNCHANGED <<kOldInterpolation, fFunctions, crashed>>

\* operator=(*this)
AssignSelf ==
    /\ ~crashed
    /\ last' = Obs("operator=", "void")
    /\ UNCHANGED <<graphVars, crashed>>

Clear ==
    /\ ~crashed
    /\ fX' = << >> /\ fY' = << >> /\ fZ' = << >>
    /\ fSize' = 0 /\ fNpoints' = 0
    /\ LET drop == ~fHistogram.isNull /\ ~fUserHisto
       IN  /\ fHistogram' = IF drop THEN NoHist ELSE fHistogram
           /\ fDelaunay' = IF drop THEN NoInterp ELSE fDelaunay
           /\ last' = IF drop THEN Deleted(Obs("Clear", "void"), fHistogram)
                      ELSE Obs("Clear", "void")
    /\ fFunctions' = FALSE
    /\ UNCHANGED <<paramVars, kOldInterpolation, crashed>>

----------------------------------------------------------------------------
(* The graph under every sequence of calls *)

\* The calls made with arguments drawn from I: the indices (idx), samples
\* (points), content of newly allocated cells (garbage), resolutions (np),
\* margins (margin), fill values (zout), bin counts and entries of the
\* caller's histograms (bins, entries), scale factors (scale), functions
\* (funcs), assigned graphs (sources), and the yes/no arguments: the
\* histogram handed in is the one already held (again), the option names the
\* old engine (old), the option says "empty" (empty), the object being
\* destroyed is the histogram (removed), and the extreme values asked for
\* (extremes: the axis, and TRUE for the maximum)
NextOf(I) ==
    \/ \E n \in I.idx, p \in I.points, g \in I.garbage : SetPoint(n, p[1], p[2], p[3], g)
    \/ \E n \in I.idx, g \in I.garbage : Set(n, g)
    \/ \E c \in I.scale : Scale(c, TRUE, FALSE, TRUE)
    \/ \E f \in I.funcs : Add(f, 1)
    \/ \E f \in I.funcs : Apply(f)
    \/ \E i \in I.idx : RemovePoint(i)
    \/ RemoveDuplicates
    \/ \E i \in I.idx : GetPoint(i)
    \/ \E e \in I.extremes : GetExtreme(e[1], e[2])
    \/ \E m \in I.margin : SetMargin(m)
    \/ \E z \in I.zout : SetMarginBinsContent(z)
    \/ \E n \in I.np : SetNpx(n)
    \/ \E n \in I.np : SetNpy(n)
    \/ \E again \in I.again, b \in I.bins, e \in I.entries, old \in I.old :
          SetHistogram(again, b, b, e, old)
    \/ \E empty \in I.empty, old \in I.old : GetHistogramCall(empty, old)
    \/ Interpolate(0, 0)
    \/ GetContourList
    \/ \E pcase \in {0, 1} : Project(pcase)
    \/ \E isHist \in I.removed : RecursiveRemove(isHist)
    \/ \E g \in I.sources : Assign(g)
    \/ AssignSelf
    \/ Clear

\* Every operation, with the arguments that decide how the cache lives:
\* samples come and go, histograms are handed in, built, filled and
\* destroyed; the parameters keep the values of construction
CacheInputs ==
    [idx |-> 0..MaxIdx, points |-> {<<0, 0, 0>>}, garbage |-> {0},
     np |-> {DefaultNpx}, margin |-> {0}, zout |-> {0},
     bins |-> {DefaultNpx}, entries |-> {0, 3}, scale |-> {1}, funcs |-> {"negz"},
     again |-> BOOLEAN, old |-> BOOLEAN, empty |-> BOOLEAN, removed |-> BOOLEAN,
     extremes |-> {<<"X", FALSE>>},
     sources |-> {SourceEmpty, SourceBuilt(<<0, 0, 0>>, DefaultNpx, 0, 0),
                  SourceCaller(<<0, 0, 0>>, DefaultNpx, 0, 0)}]

Next == NextOf(CacheInputs)

Spec == Init /\ [][Next]_vars

\* Every operation, with the arguments that decide the grid resolution:
\* requests of zero, below, at and beyond its limits, and a caller's
\* histogram of fewer bins than the lower limit
GridInputs ==
    [idx |-> {0}, points |-> {<<0, 0, 0>>}, garbage |-> {0},
     np |-> {0, MinNp - 1, MinNp, MaxNp, MaxNp + 1}, margin |-> {0},
     zout |-> {0}, bins |-> {2}, entries |-> {0}, scale |-> {1},
     again |-> BOOLEAN, old |-> BOOLEAN, empty |-> BOOLEAN, removed |-> BOOLEAN,
     funcs |-> {"negz"}, extremes |-> {<<"X", FALSE>>},
     sources |-> {SourceBuilt(<<0, 0, 0>>, MinNp, 0, 0)}]

NextGrid == NextOf(GridInputs)

SpecGrid == Init /\ [][NextGrid]_vars

\* Every operation, with the arguments that decide the samples: indices
\* below, inside and beyond the arrays, samples that share (x, y) and samples
\* that do not (a constructed sample is (0, 0, 0)), either content for newly
\* allocated cells, a graph assigned whose three samples share (x, y); one
\* way to hand in, build and lose a histogram
PointsInputs ==
    [idx |-> (0 - 1)..MaxIdx, points |-> {<<0, 0, 1>>, <<1, 0, 1>>},
     garbage |-> {0, 1}, np |-> {DefaultNpx}, margin |-> {0}, zout |-> {0},
     bins |-> {DefaultNpx}, entries |-> {0}, scale |-> {1}, funcs |-> {"x"},
     again |-> {FALSE}, old |-> {FALSE}, empty |-> {FALSE}, removed |-> {TRUE},
     extremes |-> {<<"X", FALSE>>},
     sources |-> {SourcePoints(<<<<0, 0, 0>>, <<0, 0, 1>>, <<0, 0, 2>>>>)}]

NextPoints == NextOf(PointsInputs)

SpecPoints == Init /\ [][NextPoints]_vars

\* Every operation, with the arguments that decide the fill value: either
\* value set, histograms handed in for either engine, and graphs assigned
\* that carry the other value with and without a histogram
FillInputs ==
    [idx |-> {0}, points |-> {<<0, 0, 0>>}, garbage |-> {0}, np |-> {DefaultNpx},
     margin |-> {0}, zout |-> {0, 1}, bins |-> {DefaultNpx}, entries |-> {0},
     scale |-> {1}, funcs |-> {"negz"},
     again |-> {FALSE}, old |-> BOOLEAN, empty |-> BOOLEAN, removed |-> {TRUE},
     extremes |-> {"X", "Y", "Z"} \X BOOLEAN,
     sources |-> {SourceFill(1), SourceBuilt(<<0, 0, 0>>, DefaultNpx, 0, 1)}]

NextFill == NextOf(FillInputs)

SpecFill == Init /\ [][NextFill]_vars

\* Every operation, with the margins on both sides of each limit of
\* SetMargin and the margin that is not a number
MarginInputs ==
    [idx |-> {0}, points |-> {<<0, 0, 0>>}, garbage |-> {0}, np |-> {DefaultNpx},
     margin |-> {0 - 1, 0, MarginMax, MarginMax + 1, NaN}, zout |-> {0},
     bins |-> {DefaultNpx}, entries |-> {0}, scale |-> {1}, funcs |-> {"x"},
     again |-> {FALSE}, old |-> {FALSE}, empty |-> {FALSE}, removed |-> {TRUE},
     extremes |-> {<<"X", FALSE>>},
     sources |-> {SourceBuilt(<<0, 0, 0>>, DefaultNpx, MarginMax, 0)}]

NextMargin == NextOf(MarginInputs)

SpecMargin == Init /\ [][NextMargin]_vars

\* Construction by any of TGraph2D(), TGraph2D(1), TGraph2D(0), TGraph2D(-1)
InitAnyCtor ==
    /\ \/ (DefaultCtor \/ SizedCtor(1)) /\ last = Obs("ctor", "void")
       \/ \E n \in {0 - 1, 0} :
              /\ InvalidCtor(n)
              /\ last = [Obs("ctor", "void") EXCEPT !.arg = n, !.err = TRUE]
    /\ kOldInterpolation = FALSE
    /\ crashed = FALSE

\* Every operation on a graph constructed in any of these ways, with one
\* argument of each kind
CtorInputs ==
    [idx |-> {0}, points |-> {<<0, 0, 0>>}, garbage |-> {1}, np |-> {DefaultNpx},
     margin |-> {0}, zout |-> {0}, bins |-> {DefaultNpx}, entries |-> {0},
     scale |-> {1}, funcs |-> {"x"},
     again |-> {FALSE}, old |-> {FALSE}, empty |-> {FALSE}, removed |-> {TRUE},
     extremes |-> {<<"X", FALSE>>},
     sources |-> {SourceEmpty}]

NextCtor == NextOf(CtorInputs)

SpecCtor == InitAnyCtor /\ [][NextCtor]_vars

----------------------------------------------------------------------------
(* The cache under mutation *)

Cached == ~fHistogram.isNull /\ ~fDelaunay.isNull
SampleCalls == {"SetPoint", "Set", "Scale", "Add", "Apply"}
QueryCalls == {"Interpolate", "GetHistogram", "GetContourList"}

\* C1: a call of SetPoint, Set, Scale, Add or Apply that changes the samples
\* while a histogram and an interpolator are cached leaves both pointers
\* null.
C1_SampleChangeDiscards ==
    [][(last'.op \in SampleCalls /\ pointVars' # pointVars /\ Cached)
          => (fHistogram'.isNull /\ fDelaunay'.isNull)]_vars

\* C2: a successful RemovePoint with a histogram cached leaves both pointers
\* null, and the query that follows it on a graph that still has samples
\* builds a new histogram and interpolator.
C2_RemovePointDiscardsAndRebuilds ==
    [][/\ (last'.op = "RemovePoint" /\ last'.ret >= 0 /\ ~fHistogram.isNull)
            => (fHistogram'.isNull /\ fDelaunay'.isNull)
       /\ (last.op = "RemovePoint" /\ last.ret >= 0 /\ last.delHist /\ fNpoints >= 1
              /\ last'.op \in QueryCalls)
            => (~crashed' /\ last'.newHist /\ last'.newInterp)]_vars

\* C3: after SetMargin, SetMarginBinsContent, SetNpx or SetNpy, whatever the
\* argument, the histogram pointer and the interpolator pointer are null.
C3_ParameterChangeDiscards ==
    (last.op \in {"SetMargin", "SetMarginBinsContent", "SetNpx", "SetNpy"})
        => (fHistogram.isNull /\ fDelaunay.isNull)

\* C4: on a graph with samples Interpolate returns what a live interpolator
\* built for this graph computes: never NaN, never a fault.
C4_InterpolateThroughOwnInterpolator ==
    (last.op = "Interpolate" /\ fNpoints >= 1)
        => (/\ ~crashed
            /\ last.res = "value"
            /\ last.via \in {"owned", "leaked"}
            /\ ~fDelaunay.isNull /\ fDelaunay.mine)

\* C5: an Interpolate call that directly follows an Interpolate call creates
\* no histogram and no interpolator, evaluates through the same interpolator
\* and returns the same result.
C5_InterpolateTwice ==
    [][(last.op = "Interpolate" /\ last'.op = "Interpolate")
          => (/\ ~last'.newHist /\ ~last'.newInterp
              /\ fDelaunay' = fDelaunay /\ fHistogram' = fHistogram
              /\ last'.res = last.res /\ last'.ret = last.ret
              /\ last'.via = last.via /\ ~crashed')]_vars

\* C6: whenever Interpolate or GetHistogram evaluates through fDelaunay, the
\* object is alive and belongs to the graph as it is now: not deleted, and
\* not an interpolator of a histogram the graph has let go.
C6_NoStaleInterpolator ==
    (last.op \in {"Interpolate", "GetHistogram"})
        => (last.res # "dead" /\ last.via \notin {"dead", "detached"})

----------------------------------------------------------------------------
(* The empty graph *)

\* C7 as stated: without samples no query creates an interpolator,
\* Interpolate and GetContourList report an error and change nothing, and
\* GetHistogram returns an empty histogram over [0,1] x [0,1].
C7_EmptyGraphQueries ==
    [][(fNpoints <= 0 /\ last'.op \in QueryCalls)
          => (/\ ~last'.newInterp
              /\ (last'.op \in {"Interpolate", "GetContourList"})
                    => (last'.err /\ UNCHANGED graphVars)
              /\ (last'.op = "GetHistogram")
                    => (/\ ~fHistogram'.isNull
                        /\ fHistogram'.entries = 0
                        /\ fHistogram'.lim = UnitLimits))]_vars

\* C7 as amended: without samples no query creates an interpolator,
\* Interpolate and GetContourList report an error and change nothing, and
\* GetHistogram returns the histogram the graph already refers to, untouched,
\* or else a new empty one over [0,1] x [0,1] with no interpolator in it;
\* it leaves fDelaunay alone.
C7_EmptyGraphQueriesAmended ==
    [][(fNpoints <= 0 /\ last'.op \in QueryCalls)
          => (/\ ~last'.newInterp
              /\ ~crashed'
              /\ (last'.op \in {"Interpolate", "GetContourList"})
                    => (last'.err /\ UNCHANGED graphVars)
              /\ (last'.op = "GetHistogram")
                    => (/\ UNCHANGED <<pointVars, paramVars, fDelaunay, fFunctions,
                                      kOldInterpolation>>
                        /\ ~fHistogram'.isNull
                        /\ IF fHistogram.isNull
                           THEN /\ last'.newHist
                                /\ fHistogram'.entries = 0
                                /\ fHistogram'.lim = UnitLimits
                                /\ fHistogram'.nx = fNpx /\ fHistogram'.ny = fNpy
                                /\ ~fHistogram'.fOld.present /\ ~fHistogram'.fNew.present
                           ELSE ~last'.newHist /\ fHistogram' = fHistogram))]_vars

\* C7, both cases seen: an empty graph whose GetHistogram returned a filled
\* histogram it had kept
C7_Witness ==
    /\ last.op = "GetHistogram" /\ fNpoints <= 0
    /\ ~fHistogram.isNull /\ fHistogram.entries > 0 /\ ~last.newHist

\* C8: without samples Interpolate, GetContourList and Project return NaN or
\* null, and do not crash.
C8_EmptyGraphSentinel ==
    (last.op \in {"Interpolate", "GetContourList", "Project"} /\ fNpoints <= 0)
        => (last.res \in {"nan", "null"} /\ ~crashed)

----------------------------------------------------------------------------
(* The grid resolution *)

InRange(n) == MinNp <= n /\ n <= MaxNp

\* C9: SetNpx(n) and SetNpy(n) store n when 4 <= n <= 500, 4 when n < 4 and
\* 500 when n > 500; a request out of range is answered with a warning, and
\* the call completes without an error.
C9_SetNpClamps ==
    /\ (last.op = "SetNpx")
          => (/\ fNpx = (IF InRange(last.arg) THEN last.arg
                         ELSE IF last.arg < MinNp THEN MinNp ELSE MaxNp)
              /\ last.warn = ~InRange(last.arg)
              /\ ~last.err /\ ~crashed)
    /\ (last.op = "SetNpy")
          => (/\ fNpy = (IF InRange(last.arg) THEN last.arg
                         ELSE IF last.arg < MinNp THEN MinNp ELSE MaxNp)
              /\ last.warn = ~InRange(last.arg)
              /\ ~last.err /\ ~crashed)

\* C9, its case: a request beyond 500 was stored as 500
C9_Witness == last.op = "SetNpx" /\ last.arg > MaxNp /\ fNpx = MaxNp /\ last.warn

\* C11: SetNpx(n) and SetNpy(n) with n <= 0 report an error and leave the
\* stored resolution as it was.
C11_NonPositiveRejected ==
    [][/\ (last'.op = "SetNpx" /\ last'.arg <= 0) => (last'.err /\ fNpx' = fNpx)
       /\ (last'.op = "SetNpy" /\ last'.arg <= 0) => (last'.err /\ fNpy' = fNpy)]_vars

\* C10: in every state 4 <= fNpx <= 500 and 4 <= fNpy <= 500.
C10_ResolutionBounded == InRange(fNpx) /\ InRange(fNpy)

----------------------------------------------------------------------------
(* The samples *)

\* the sample at index i (counted from 0, as the program counts)
Sample(i) == <<fX[i + 1], fY[i + 1], fZ[i + 1]>>

\* C12: RemovePoint(k) with 0 <= k < N returns k, takes one off the count,
\* leaves the samples below k as they were and gives every index from k on
\* the sample that was at the next index.
C12_RemovePointShifts ==
    [][(last'.op = "RemovePoint" /\ last'.arg >= 0 /\ last'.arg < fNpoints)
          => (/\ last'.ret = last'.arg
              /\ fNpoints' = fNpoints - 1
              /\ \A i \in 0..(fNpoints - 2) :
                     Sample(i)' = IF i < last'.arg THEN Sample(i) ELSE Sample(i + 1))]_vars

\* C12, its case: the first of two samples was removed and the second,
\* (1, 0, 1), is now the first
C12_Witness ==
    /\ last.op = "RemovePoint" /\ last.ret = 0
    /\ fNpoints = 1 /\ Sample(0) = <<1, 0, 1>>

\* C13: SetPoint(n, x, y, z) with n >= 0 stores (x, y, z) at index n, makes
\* the count max(old count, n + 1) and leaves every other sample below the
\* old count as it was, re-allocation or not; with n < 0 it changes nothing.
C13_SetPointStores ==
    [][(last'.op = "SetPoint")
          => IF last'.arg < 0 THEN UNCHANGED graphVars
             ELSE /\ <<fX'[last'.arg + 1], fY'[last'.arg + 1], fZ'[last'.arg + 1]>>
                        = last'.args
                  /\ fNpoints' = Max(fNpoints, last'.arg + 1)
                  /\ \A i \in 0..(fNpoints - 1) :
                         i # last'.arg => Sample(i)' = Sample(i)]_vars

\* C13, its case: a second sample was stored, the arrays grew from one cell
\* to two, and the first sample is still (1, 0, 1)
C13_Witness ==
    /\ last.op = "SetPoint" /\ last.arg = 1 /\ last.args = <<0, 0, 1>>
    /\ fNpoints = 2 /\ fSize = 2
    /\ Sample(0) = <<1, 0, 1>> /\ Sample(1) = <<0, 0, 1>>

\* C14: in every state the three arrays are all unallocated, or all
\* allocated with capacity fSize; and 0 <= fNpoints <= fSize.
C14_ArraysConsistent ==
    /\ \/ fX = << >> /\ fY = << >> /\ fZ = << >>
       \/ /\ fX # << >> /\ fY # << >> /\ fZ # << >>
          /\ Len(fX) = fSize /\ Len(fY) = fSize /\ Len(fZ) = fSize
    /\ 0 <= fNpoints /\ fNpoints <= fSize

\* the indices (from 1) of the samples that no earlier sample shares (x, y)
\* with
FirstOccurrences ==
    {i \in 1..fNpoints : \A j \in 1..(i - 1) : <<fX[j], fY[j]>> # <<fX[i], fY[i]>>}

\* C18: RemoveDuplicates keeps, in their order and with their own z, exactly
\* the samples that no earlier sample shares (x, y) with, so that no two
\* samples left share (x, y); it returns the new count.
C18_RemoveDuplicatesKeepsFirst ==
    [][(last'.op = "RemoveDuplicates")
          => (/\ fNpoints' = Cardinality(FirstOccurrences)
              /\ last'.ret = fNpoints'
              /\ \A i \in FirstOccurrences :
                     LET k == Cardinality({j \in FirstOccurrences : j <= i})
                     IN  <<fX'[k], fY'[k], fZ'[k]>> = <<fX[i], fY[i], fZ[i]>>
              /\ \A i, j \in 1..fNpoints' :
                     i # j => <<fX'[i], fY'[i]>> # <<fX'[j], fY'[j]>>)]_vars

\* C18, its case: of several samples sharing (x, y) and one that does not,
\* two are left, the first with its own z
C18_Witness ==
    /\ last.op = "RemoveDuplicates" /\ last.ret = 2 /\ fNpoints = 2
    /\ Sample(0) = <<0, 0, 0>> /\ Sample(1) = <<1, 0, 1>>

\* C19: Set(n), a negative n taken as 0, makes the count n, leaves the
\* samples below both the old and the new count as they were, and every
\* sample from the old count up to the new one reads (0, 0, 0).
C19_SetZeroFills ==
    [][(last'.op = "Set")
          => LET n == IF last'.arg < 0 THEN 0 ELSE last'.arg
             IN  /\ fNpoints' = n
                 /\ \A i \in 1..n :
                        <<fX'[i], fY'[i], fZ'[i]>> =
                            IF i <= fNpoints THEN <<fX[i], fY[i], fZ[i]>> ELSE <<0, 0, 0>>]_vars

\* C20: GetPoint(i, x, y, z) returns -1 and writes nothing to x, y, z when
\* i < 0, i >= fNpoints or an array is unallocated; otherwise it returns i
\* and writes sample i to x, y, z.  It never changes the graph.
C20_GetPointReads ==
    [][(last'.op = "GetPoint")
          => /\ UNCHANGED graphVars
             /\ IF \/ last'.arg < 0 \/ last'.arg >= fNpoints
                   \/ fX = << >> \/ fY = << >> \/ fZ = << >>
                THEN last'.ret = 0 - 1 /\ last'.out = << >>
                ELSE last'.ret = last'.arg /\ last'.out = Sample(last'.arg)]_vars

C20_Witness ==
    /\ last.op = "GetPoint" /\ last.arg = 1 /\ last.ret = 1
    /\ fNpoints = 2 /\ last.out = <<1, 0, 1>>

\* C27: when SetPoint(n, ...) extends the graph past its count, the samples
\* from the old count up to n - 1 read (0, 0, 0), whether or not the graph
\* had arrays before the call.
C27_SkippedSamplesZero ==
    [][(last'.op = "SetPoint" /\ last'.arg >= 0)
          => \A i \in (fNpoints + 1)..last'.arg :
                <<fX'[i], fY'[i], fZ'[i]>> = <<0, 0, 0>>]_vars

\* C28: GetXmin, GetXmax, GetYmin, GetYmax, GetZmin and GetZmax read only
\* elements with index in [0, fNpoints) of an allocated array, so none at
\* all on a graph without samples.
C28_ExtremesReadSamples ==
    [][(last'.op \in {"GetXmin", "GetXmax", "GetYmin", "GetYmax", "GetZmin", "GetZmax"})
          => /\ last'.res # "crash"
             /\ \A k \in 1..Len(last'.args) : last'.args[k] \in 0..(fNpoints - 1)]_vars

\* C29: after SetMargin(m) the margin is m when 0 <= m <= 1 and 0.1, with a
\* warning, otherwise; the margin lies within [0, 1] in every state.
C29_MarginWithinUnit ==
    /\ ~Less(fMargin, 0) /\ ~Less(MarginMax, fMargin) /\ fMargin # NaN
    /\ last.op = "SetMargin"
          => IF last.arg # NaN /\ 0 <= last.arg /\ last.arg <= MarginMax
             THEN fMargin = last.arg /\ ~last.warn
             ELSE fMargin = MarginFallback /\ last.warn

----------------------------------------------------------------------------
(* Assignment *)

C22_InterpolateFrame ==
    [][(last'.op = "Interpolate")
          => /\ UNCHANGED <<pointVars, fMargin, fZout, fMaxIter, fNpx, fNpy, fUserHisto>>
             /\ ~fHistogram.isNull
                    => /\ fHistogram' = fHistogram
                       /\ ~fDelaunay.isNull => fDelaunay' = fDelaunay]_vars

C22_Witness ==
    /\ last.op = "Interpolate" /\ last.res = "value"
    /\ last.newHist /\ last.newInterp
    /\ fNpoints >= 1 /\ ~fHistogram.isNull /\ ~fDelaunay.isNull

----------------------------------------------------------------------------
(* Setting a build parameter again *)

Setters == {"SetMargin", "SetMarginBinsContent", "SetNpx", "SetNpy"}

\* C23: a setter called on a graph without histogram deletes nothing and
\* leaves histogram, interpolator and engine bit as they were; the same
\* setter called again with the same argument leaves the whole graph as the
\* first call left it.
C23_DiscardIdempotent ==
    [][(last'.op \in Setters)
          => /\ fHistogram.isNull => UNCHANGED cacheVars /\ ~last'.delHist
             /\ (last.op = last'.op /\ last.arg = last'.arg) => UNCHANGED graphVars]_vars

C23_Witness ==
    /\ last.op = "SetNpx" /\ last.arg = MaxNp + 1 /\ ~last.delHist
    /\ fNpx = MaxNp /\ fHistogram.isNull /\ kOldInterpolation

----------------------------------------------------------------------------
(* The caller's histogram *)

\* C24: while fUserHisto is set, no operation deletes the histogram the
\* caller handed in through SetHistogram.
C24_UserHistogramKept ==
    [][(fUserHisto /\ ~fHistogram.isNull /\ fHistogram.user)
          => ~(last'.delHist /\ last'.delUser)]_vars

\* C25: whenever fUserHisto is set the graph holds a histogram, and no call
\* of GetHistogram or Interpolate reads the axes of a null histogram.
C25_UserHistogramPresent ==
    /\ fUserHisto => ~fHistogram.isNull
    /\ last.op \in {"GetHistogram", "Interpolate"} => last.res # "crash"

----------------------------------------------------------------------------
(* What the interpolator was configured with *)

\* C15: whenever fDelaunay is set, the fill value the interpolator was given
\* when it was created is the graph's fZout.
C15_FillValueCurrent ==
    ~fDelaunay.isNull => fDelaunay.zout = fZout

\* C16 as stated: every interpolator a call creates, of either engine, was
\* given the graph's fMaxIter.
C16_MaxIterConfigured ==
    [][last'.newInterp
          => (~fDelaunay'.isNull /\ fDelaunay'.maxit = fMaxIter')]_vars

\* C16 as amended: every interpolator a call creates becomes fDelaunay; one
\* of the old engine (TGraphDelaunay) was given the graph's fMaxIter, one of
\* the new engine (TGraphDelaunay2D) was given no iteration limit.
C16_MaxIterConfiguredAmended ==
    [][last'.newInterp
          => (/\ ~fDelaunay'.isNull
              /\ fDelaunay'.maxit = IF fDelaunay'.old THEN fMaxIter' ELSE NoMaxIter)]_vars

\* C16, its case: the call created an interpolator of the old engine, which
\* holds the graph's iteration limit
C16_Witness ==
    /\ last.newInterp /\ ~fDelaunay.isNull
    /\ fDelaunay.old /\ fDelaunay.maxit = fMaxIter

----------------------------------------------------------------------------
(* Filling the grid *)

\* C17: GetHistogram on a graph with samples, unless it returns a histogram
\* that was filled before or stops on a null histogram, calls ComputeZ once
\* for each of the fNpx x fNpy cells and returns the histogram with one
\* entry per cell; with "empty" in the option it calls ComputeZ for no cell.
C17_GridFilledOncePerCell ==
    [][(last'.op = "GetHistogram" /\ fNpoints >= 1 /\ last'.res # "crash")
          => IF last'.args[1] THEN last'.calls = 0
             ELSE IF ~fHistogram.isNull /\ fHistogram.entries # 0 /\ fHistogram' = fHistogram
             THEN last'.calls = 0
             ELSE /\ last'.res = "hist" /\ ~crashed'
                  /\ last'.calls = fNpx * fNpy
                  /\ fHistogram'.nx = fNpx /\ fHistogram'.ny = fNpy
                  /\ fHistogram'.entries = fNpx * fNpy]_vars

\* C26: whenever GetHistogram fills the grid, fDelaunay is not null and
\* refers to a live interpolator of the engine the option names, the old one
\* exactly when the option contains "old".
C26_FillThroughSelectedEngine ==
    [][(last'.op = "GetHistogram") => last'.res \notin {"null", "dead", "cast"}]_vars

====
